---- MODULE Spec2Model ----
(***************************************************************************)
(* A model of convert_file (src/isel_to_gcode_gui.py): the ISEL NC to      *)
(* G-code conversion engine.                                               *)
(*                                                                         *)
(* Numbers.  The program computes in binary floating point; the model      *)
(* computes in fixed point:                                                *)
(*   lengths  in micrometres (1 ISEL unit = 0.001 mm = 1 um),              *)
(*   radii    in 1/100 um,                                                 *)
(*   angles   in 1e-4 rad,                                                 *)
(*   feed     in 1e-3 mm/min,                                              *)
(*   time     in 1e-6 min,                                                 *)
(*   progress in 1/100 percent.                                            *)
(* Coordinate tokens of the input are integers (the decimal part the       *)
(* token grammar also allows is not modelled).                             *)
(*                                                                         *)
(* An output line is a record [n, words, src]: n is the N identifier (0    *)
(* for an unnumbered line), words the sequence of <<letter, value>> words  *)
(* and src the number of the input line that was being processed when the  *)
(* line was built (0 for the preamble and the postamble).                  *)
(***************************************************************************)
EXTENDS Integers, Sequences, FiniteSets, TLC

\* ---------------------------------------------------------------- bounds
\* Raw lines of the input file (blank and comment lines included).
MaxLines == 3
\* Write calls among which the environment may fail one (SpecIO only).
MaxFailAt == 5
\* Lines of the long input file (SpecLong only).
MaxLongLines == 101
\* Raw lines of the input file in the runs checked for termination
\* (SpecLive only).
MaxLiveLines == 2
\* Conversions started in one session of the GUI (SpecGUI only).
MaxRuns == 2
\* Progress reports of one conversion that reach the GUI (SpecGUI only).
MaxReports == 1

\* ------------------------------------------------------ program constants
SCALE == 1000
\* VEL_RATIO = 16.6667, times 10^4
VEL_RATIO == 166667
\* SAFE_Z = 4.0 mm, in um
SAFE_Z == 4000
\* ARC_RESOLUTION = 0.05 mm, in um
ARC_RESOLUTION == 50
\* DEFAULT_FEED = 1000.0 mm/min
DEFAULT_FEED == 1000
\* progress is reported every 50th processed line
PROGRESS_EVERY == 50
\* the share of the bar the main loop fills, in percent
PROGRESS_SPAN == 95
\* math.pi, in 1e-4 rad
PI == 31416

UM_PER_MM == 10 * 100
ANGLE_ONE == 100 * 100
FEED_ONE == 10 * 100
HALF_PI == PI \div 2
TWO_PI == 2 * PI
\* current_feed = None
None == -1

Axes == <<"X", "Y", "Z">>

\* ------------------------------------------------------------- arithmetic
Abs(x) == IF x < 0 THEN -x ELSE x

Max(a, b) == IF a >= b THEN a ELSE b

\* a / b rounded to the nearest integer, b > 0
RoundDiv(a, b) == IF a >= 0 THEN (2 * a + b) \div (2 * b)
                  ELSE -((2 * (-a) + b) \div (2 * b))

\* floor(a * b / c) without forming a * b, for a, b >= 0 and c > 0
MulDiv(a, b, c) == (a \div c) * b + ((a % c) * b) \div c

RECURSIVE SqrtSearch(_, _, _)
SqrtSearch(n, lo, hi) ==
    IF lo >= hi THEN lo
    ELSE LET mid == (lo + hi + 1) \div 2
         IN IF mid * mid <= n THEN SqrtSearch(n, mid, hi)
            ELSE SqrtSearch(n, lo, mid - 1)

\* math.sqrt, rounded down
ISqrt(n) == SqrtSearch(n, 0, 46340)

\* sin and cos on [0, pi/4] by their Taylor polynomials, scaled by ANGLE_ONE
SinSmall(x) ==
    LET x2 == (x * x) \div ANGLE_ONE
        t1 == ANGLE_ONE - x2 \div 20
        t2 == ANGLE_ONE - (x2 * t1) \div (6 * ANGLE_ONE)
    IN RoundDiv(x * t2, ANGLE_ONE)

CosSmall(x) ==
    LET x2 == (x * x) \div ANGLE_ONE
        u1 == ANGLE_ONE - x2 \div 30
        u2 == ANGLE_ONE - (x2 * u1) \div (12 * ANGLE_ONE)
    IN ANGLE_ONE - RoundDiv(x2 * u2, 2 * ANGLE_ONE)

\* an angle brought into (-pi, pi]
WrapAngle(a) ==
    LET m == a % TWO_PI
    IN IF m > PI THEN m - TWO_PI ELSE m

SinQ(a) == IF a <= HALF_PI \div 2 THEN SinSmall(a) ELSE CosSmall(HALF_PI - a)

CosQ(a) == IF a <= HALF_PI \div 2 THEN CosSmall(a) ELSE SinSmall(HALF_PI - a)

\* math.sin, scaled by ANGLE_ONE
Sin(a) ==
    LET w == WrapAngle(a)
        p == Abs(w)
        s == IF p > HALF_PI THEN SinQ(PI - p) ELSE SinQ(p)
    IN IF w < 0 THEN -s ELSE s

\* math.cos, scaled by ANGLE_ONE
Cos(a) ==
    LET p == Abs(WrapAngle(a))
    IN IF p > HALF_PI THEN -CosQ(PI - p) ELSE CosQ(p)

\* the angle in [0, pi/2] of the point (x, y), x > 0 and y > 0, by bisection
RECURSIVE AtanSearch(_, _, _, _)
AtanSearch(y, x, lo, hi) ==
    IF lo >= hi THEN lo
    ELSE LET mid == (lo + hi + 1) \div 2
         IN IF y * CosQ(mid) - x * SinQ(mid) >= 0
            THEN AtanSearch(y, x, mid, hi)
            ELSE AtanSearch(y, x, lo, mid - 1)

\* math.atan2(y, x); atan2(0, 0) = 0
Atan2(y, x) ==
    IF y = 0 THEN (IF x >= 0 THEN 0 ELSE PI)
    ELSE IF x = 0 THEN (IF y > 0 THEN HALF_PI ELSE -HALF_PI)
    ELSE LET t == AtanSearch(Abs(y), Abs(x), 0, HALF_PI)
         IN IF x > 0 THEN (IF y > 0 THEN t ELSE -t)
            ELSE (IF y > 0 THEN PI - t ELSE t - PI)

\* math.hypot(dx, dy), in 1/100 um
Hypot(dx, dy) == ISqrt((dx * dx + dy * dy) * ANGLE_ONE)


\* ------------------------------------------------------------ input lines
\* An input line is a record [kw, num, tok]: kw the keyword the line starts
\* with ("" a blank line, ";" a comment line, "OTHER" any other text), num
\* the value of its RPM or VEL token (None when the token is missing) and
\* tok the coordinate tokens present in it, letter -> ISEL units.
NoTok == [k \in {} |-> 0]

Line(kw, num, tok) == [kw |-> kw, num |-> num, tok |-> tok]

SkippedLines == {Line("", None, NoTok), Line(";", None, NoTok)}

SpindleLines == {Line("SPINDLE CW", n, NoTok) : n \in {None, 1000}}

VelLines == {Line("VEL", n, NoTok) : n \in {None, 0, 1000}}

OtherLines == {Line("OTHER", None, NoTok)}

MoveToks == {"X" :> 100,
             "Z" :> 0,
             "Z" :> 4000,
             ("X" :> 100) @@ ("Y" :> 50)}

FastabsLines == {Line("FASTABS", None, t) : t \in MoveToks}

MoveabsLines == {Line("MOVEABS", None, t) : t \in MoveToks}

ArcToks == {NoTok,
            "J" :> 50,
            ("X" :> 100) @@ ("Y" :> 50) @@ ("I" :> 50),
            ("X" :> 100) @@ ("Z" :> 5000) @@ ("I" :> 50)}

ArcLines == {Line(kw, None, t) : kw \in {"CWABS", "CCWABS"}, t \in ArcToks}

\* ------------------------------------------------------------------ state
VARIABLES
    pc,               \* where convert_file is: start, counted, loop, done, failed
    use_arc_commands, \* the mode flag
    input_exists,     \* the input path names a readable file
    output_writable,  \* the output path can be opened for writing
    file_len,         \* raw lines of the input file
    total_lines,      \* its non-blank, non-comment lines (the first pass)
    fail_at,          \* the write call the environment fails (0: none)
    input,            \* the raw lines read so far by the second pass
    lines_processed,
    out,              \* the lines written to the output file
    out_open,         \* the output file is open
    line_no,
    current_feed,
    last_pos,
    start_done,
    total_time_min,
    log,              \* the messages handed to the logging sink
    writes,           \* calls of out_f.write so far
    failed_writes,    \* those that raised
    progress,         \* the percentages handed to progress_callback
    result,           \* the value returned (None until then)
    error,            \* the exception raised to the caller ("" when none)
    swept,            \* the angles computed for one arc (<<>> until then)
    converting,       \* run_gui: the flag
    input_var,        \* run_gui: the path in the entry ("" when empty)
    convert_btn,      \* run_gui: state of the Convert button
    browse_btn,       \* run_gui: state of the Browse button
    worker,           \* run_gui: where each worker thread is
    outcome,          \* run_gui: how convert_file ended in each worker
    reports,          \* run_gui: progress reports of the running worker
    after,            \* run_gui: callbacks scheduled with root.after(0, ...)
    event             \* run_gui: the handler, worker or callback that ran last

env == <<use_arc_commands, input_exists, output_writable, file_len,
         total_lines, fail_at>>

vars == <<pc, use_arc_commands, input_exists, output_writable, file_len,
          total_lines, fail_at, input, lines_processed, out, out_open,
          line_no, current_feed, last_pos, start_done, total_time_min, log,
          writes, failed_writes, progress, result, error, swept,
          converting, input_var, convert_btn, browse_btn, worker, outcome,
          reports, after, event>>

\* what no step of convert_file's model below touches
beside == <<swept, converting, input_var, convert_btn, browse_btn, worker,
            outcome, reports, after, event>>

\* The locals of convert_file a branch reads and writes, as one record;
\* src is the number of the input line being processed (0 outside the
\* loop) and raised says an exception is propagating.
Machine(src) ==
    [out |-> out, line_no |-> line_no, current_feed |-> current_feed,
     last_pos |-> last_pos, start_done |-> start_done,
     total_time_min |-> total_time_min, log |-> log, writes |-> writes,
     failed_writes |-> failed_writes, src |-> src, raised |-> FALSE]

\* ---------------------------------------------------------------- helpers
\* a counter that is never advanced
nline_stuck(s) == s

\* nline: the identifier handed out is s.line_no, the counter moves on
nline(s) == [s EXCEPT !.line_no = @ + 1]

\* out_f.write raises on the call the environment fails
WriteFails(s) == fail_at # 0 /\ s.writes + 1 = fail_at

\* emit: one write call; a failed one raises and writes nothing
emit(s, line) ==
    IF WriteFails(s)
    THEN [s EXCEPT !.writes = @ + 1, !.failed_writes = @ + 1, !.raised = TRUE]
    ELSE [s EXCEPT !.writes = @ + 1, !.out = Append(@, line)]

OutLine(n, words, src) == [n |-> n, words |-> words, src |-> src]

\* emit(nline() + text)
emit_n(s, words) == emit(nline(s), OutLine(s.line_no, words, s.src))

\* log(msg)
Log(s, msg) == [s EXCEPT !.log = Append(@, [msg |-> msg, src |-> s.src])]

\* move_distance, in um
move_distance(p1, p2) ==
    ISqrt((p2["X"] - p1["X"]) * (p2["X"] - p1["X"])
          + (p2["Y"] - p1["Y"]) * (p2["Y"] - p1["Y"])
          + (p2["Z"] - p1["Z"]) * (p2["Z"] - p1["Z"]))

SeqToSet(q) == {q[i] : i \in 1..Len(q)}

\* parse_coord: the axes of `axes` with a token in the line, each value
\* divided by SCALE (ISEL units to mm, held in um)
parse_coord(text, axes) ==
    [a \in SeqToSet(axes) \cap DOMAIN text.tok |->
        (text.tok[a] * UM_PER_MM) \div SCALE]

\* an axis the command does not name is reset to zero
Update_zeroing(pos, c) ==
    [k \in DOMAIN pos |-> IF k \in DOMAIN c THEN c[k] ELSE 0]

\* dict.copy() followed by dict.update(c)
Update(pos, c) ==
    [k \in DOMAIN pos |-> IF k \in DOMAIN c THEN c[k] ELSE pos[k]]

\* dict.get(k, 0.0)
Get(d, k) == IF k \in DOMAIN d THEN d[k] ELSE 0

\* the words of a G0/G1 line: the code, then each axis of the command
MoveWords(g, c, target) ==
    LET named == SelectSeq(Axes, LAMBDA k : k \in DOMAIN c)
    IN <<<<"G", g>>>> \o [i \in 1..Len(named) |-> <<named[i], target[named[i]]>>]

\* `if current_feed:` -- neither None nor 0.0
Truthy(feed) == feed # None /\ feed # 0

\* total_time_min += dist / current_feed, when the feed is truthy
add_time(s, dist) ==
    IF Truthy(s.current_feed)
    THEN [s EXCEPT !.total_time_min = @ + MulDiv(dist * 1000, 1000, s.current_feed)]
    ELSE s

\* vel / VEL_RATIO
FeedFromVel(vel) == MulDiv(vel * ANGLE_ONE, FEED_ONE, VEL_RATIO)

\* f"{current_feed:.0f}"
FmtF(feed) == RoundDiv(feed, FEED_ONE)

\* the rest of a branch is skipped while an exception propagates
ThenLog(e, msg) == IF e.raised THEN e ELSE Log(e, msg)

ThenPos(e, pos) == IF e.raised THEN e ELSE [e EXCEPT !.last_pos = pos]

ThenEmit(e, words) == IF e.raised THEN e ELSE emit_n(e, words)

\* the feed is defaulted but no F line is written
default_feed_silent(s) ==
    IF s.current_feed # None THEN s
    ELSE Log([s EXCEPT !.current_feed = DEFAULT_FEED * FEED_ONE], "WarnDefaultFeed")

\* a feed of zero counts as unset
default_feed_falsy(s) ==
    IF Truthy(s.current_feed) THEN s
    ELSE ThenLog(emit_n([s EXCEPT !.current_feed = DEFAULT_FEED * FEED_ONE],
                        <<<<"F", FmtF(DEFAULT_FEED * FEED_ONE)>>>>),
                 "WarnDefaultFeed")

\* the default-feed rule shared by the MOVEABS and the arc branch
default_feed(s) ==
    IF s.current_feed # None THEN s
    ELSE ThenLog(emit_n([s EXCEPT !.current_feed = DEFAULT_FEED * FEED_ONE],
                        <<<<"F", FmtF(DEFAULT_FEED * FEED_ONE)>>>>),
                 "WarnDefaultFeed")

\* ------------------------------------------------------------------- arcs
\* 0.001 mm, the end-point tolerance of linearize_arc, in um
END_TOLERANCE == 1

\* a1 after the direction adjustment: the sweep a1 - a0 is negative for a
\* clockwise arc and positive for a counterclockwise one
SweepEnd(a0, a1, cw) ==
    IF cw THEN (IF a1 >= a0 THEN a1 - TWO_PI ELSE a1)
    ELSE (IF a1 <= a0 THEN a1 + TWO_PI ELSE a1)

Geometry(cx, cy, r, a0, a1, cw) ==
    [cx |-> cx, cy |-> cy, r |-> r, a0 |-> a0, a1 |-> SweepEnd(a0, a1, cw)]

\* centre, radius, start angle and adjusted end angle of an arc
ArcGeometry(start, end, center, cw) ==
    Geometry(center["X"], center["Y"],
             Hypot(start["X"] - center["X"], start["Y"] - center["Y"]),
             Atan2(start["Y"] - center["Y"], start["X"] - center["X"]),
             Atan2(end["Y"] - center["Y"], end["X"] - center["X"]),
             cw)

\* cx + r * cos(a) and cy + r * sin(a), in um
OnCircleX(g, a) == g.cx + RoundDiv(g.r * Cos(a), ANGLE_ONE * 100)

OnCircleY(g, a) == g.cy + RoundDiv(g.r * Sin(a), ANGLE_ONE * 100)

\* the sweep taken with its sign
ArcLen_signed(g) == RoundDiv((g.a1 - g.a0) * g.r, ANGLE_ONE * 100)

\* abs(a1 - a0) * r, in um
ArcLen(g) == RoundDiv(Abs(g.a1 - g.a0) * g.r, ANGLE_ONE * 100)

\* the words of the single G2/G3 line
ArcWords(cw, end_x, end_y, i_off, j_off) ==
    <<<<"G", IF cw THEN 2 ELSE 3>>, <<"X", end_x>>, <<"Y", end_y>>,
      <<"I", i_off>>, <<"J", j_off>>>>

\* the line carries the end point as programmed
ArcLine_uncorrected(s, start, end, cw, g, end_x, end_y) ==
    [s     |-> nline(s),
     pos   |-> end,
     lines |-> <<OutLine(s.line_no,
                         ArcWords(cw, end["X"], end["Y"], g.cx - start["X"], g.cy - start["Y"]),
                         s.src)>>]

\* the line and the corrected end point, once the end point is projected
ArcLine(s, start, end, cw, g, end_x, end_y) ==
    [s     |-> nline(s),
     pos   |-> [end EXCEPT !["X"] = end_x, !["Y"] = end_y],
     lines |-> <<OutLine(s.line_no,
                         ArcWords(cw, end_x, end_y, g.cx - start["X"], g.cy - start["Y"]),
                         s.src)>>]

ArcProjected(s, start, end, cw, g) ==
    ArcLine(add_time(s, ArcLen(g)), start, end, cw, g,
            OnCircleX(g, g.a1), OnCircleY(g, g.a1))

\* arc_to_g2g3: [s, pos, lines], the locals after the call, the position
\* returned and the lines returned
arc_to_g2g3(s, start, end, center, cw) ==
    ArcProjected(s, start, end, cw, ArcGeometry(start, end, center, cw))

G1Words(p) == <<<<"G", 1>>, <<"X", p["X"]>>, <<"Y", p["Y"]>>, <<"Z", p["Z"]>>>>

\* one chord: a numbered G1 line to `target`, its time, the new position
Segment(acc, target) ==
    [s     |-> add_time(nline(acc.s), move_distance(acc.pos, target)),
     pos   |-> target,
     lines |-> Append(acc.lines, OutLine(acc.s.line_no, G1Words(target), acc.s.src))]

ChordPoint(g, z, a) == [X |-> OnCircleX(g, a), Y |-> OnCircleY(g, a), Z |-> z]

\* the loop `for i in range(1, steps + 1)` of linearize_arc, from step i on
RECURSIVE Chords(_, _, _, _, _)
Chords(acc, g, z, steps, i) ==
    IF i > steps THEN acc
    ELSE Chords(Segment(acc, ChordPoint(g, z, g.a0 + RoundDiv((g.a1 - g.a0) * i, steps))),
                g, z, steps, i + 1)

\* int(arc_len / ARC_RESOLUTION), at least 1
StepCount(g) ==
    Max(1, (Abs(g.a1 - g.a0) * g.r) \div (ANGLE_ONE * 100 * ARC_RESOLUTION))

\* the last chord point is taken for the end point
EndCorrection_never(acc, final_pos) == acc

\* the exact end-point correction of linearize_arc
EndCorrection(acc, final_pos) ==
    IF \/ Abs(final_pos["X"] - acc.pos["X"]) > END_TOLERANCE
       \/ Abs(final_pos["Y"] - acc.pos["Y"]) > END_TOLERANCE
    THEN Segment(acc, final_pos)
    ELSE acc

Linearized(s, start, end, g) ==
    EndCorrection(
        Chords([s |-> s, pos |-> start, lines |-> <<>>], g, start["Z"], StepCount(g), 1),
        end)

\* linearize_arc: [s, pos, lines] as for arc_to_g2g3
linearize_arc(s, start, end, center, cw) ==
    Linearized(s, start, end, ArcGeometry(start, end, center, cw))

\* the mode flag is ignored
handle_arc_linear(s, start, end, center, cw) ==
    linearize_arc(s, start, end, center, cw)

\* handle_arc = arc_to_g2g3 if use_arc_commands else linearize_arc
handle_arc(s, start, end, center, cw) ==
    IF use_arc_commands THEN arc_to_g2g3(s, start, end, center, cw)
    ELSE linearize_arc(s, start, end, center, cw)

\* `for al in arc_lines: emit(al)`, and any run of plain writes
RECURSIVE EmitAll(_, _)
EmitAll(s, lines) ==
    IF lines = <<>> \/ s.raised THEN s
    ELSE EmitAll(emit(s, Head(lines)), Tail(lines))

\* --------------------------------------------------- the branches of the loop
spindle_branch(s, ln) ==
    IF ln.num # None
    THEN ThenLog(emit_n(s, <<<<"S", ln.num>>, <<"M", 3>>>>), "Spindle")
    ELSE Log(s, "WarnRPM")

\* last_pos["Z"] = SAFE_Z, after the retraction line is written
Retracted(e) == IF e.raised THEN e ELSE [e EXCEPT !.last_pos["Z"] = SAFE_Z]

\* the flag is never set
StartDone_never(r) == r

\* start_done = True
StartDone(r) == IF r.raised THEN r ELSE [r EXCEPT !.start_done = TRUE]

\* the one-shot retraction to SAFE_Z before the first rapid move
startup_retraction(s) ==
    IF s.start_done THEN s
    ELSE StartDone(IF s.last_pos["Z"] < SAFE_Z
                   THEN Retracted(emit_n(s, <<<<"G", 0>>, <<"Z", SAFE_Z>>>>))
                   ELSE s)

\* the rapid move is timed like a feed move
RapidTo_timed(s, c, target) ==
    ThenPos(add_time(emit_n(s, MoveWords(0, c, target)),
                     move_distance(s.last_pos, target)),
            target)

\* the G0 line of the command and the new position
RapidTo(s, c, target) == ThenPos(emit_n(s, MoveWords(0, c, target)), target)

Rapid(s, c) == IF s.raised THEN s ELSE RapidTo(s, c, Update(s.last_pos, c))

fastabs_branch(s, ln) == Rapid(startup_retraction(s), parse_coord(ln, Axes))

\* the time of the move and the new position, after the G1 line is written
FeedMoved(e, target) ==
    IF e.raised THEN e
    ELSE [add_time(e, move_distance(e.last_pos, target)) EXCEPT !.last_pos = target]

FeedTo(s, c, target) ==
    IF s.raised THEN s ELSE FeedMoved(emit_n(s, MoveWords(1, c, target)), target)

moveabs_branch(s, ln) ==
    FeedTo(default_feed(s), parse_coord(ln, Axes),
           Update(s.last_pos, parse_coord(ln, Axes)))

\* a missing number is read as zero
vel_branch_zero(s, ln) ==
    ThenLog(emit_n([s EXCEPT !.current_feed = FeedFromVel(Max(ln.num, 0))],
                   <<<<"F", FmtF(FeedFromVel(Max(ln.num, 0)))>>>>),
            "Feed")

vel_branch(s, ln) ==
    IF ln.num # None
    THEN ThenLog(emit_n([s EXCEPT !.current_feed = FeedFromVel(ln.num)],
                        <<<<"F", FmtF(FeedFromVel(ln.num))>>>>),
                 "Feed")
    ELSE Log(s, "WarnVEL")

\* the centre: the start point moved by the I/J offsets
Center(pos, ij) == [X |-> pos["X"] + Get(ij, "I"), Y |-> pos["Y"] + Get(ij, "J")]

\* the lines of the arc are written, then last_pos = new_pos
ArcEmitted(r) == ThenPos(EmitAll(r.s, r.lines), r.pos)

Arc(s, ln) ==
    IF s.raised THEN s
    ELSE ArcEmitted(handle_arc(s, s.last_pos,
                               Update(s.last_pos, parse_coord(ln, Axes)),
                               Center(s.last_pos, parse_coord(ln, <<"I", "J">>)),
                               ln.kw = "CWABS"))

arc_branch(s, ln) == Arc(default_feed(s), ln)

\* the if/elif chain on the line's prefix; no branch takes any other line
dispatch(s, ln) ==
    IF ln.kw = "SPINDLE CW" THEN spindle_branch(s, ln)
    ELSE IF ln.kw = "FASTABS" THEN fastabs_branch(s, ln)
    ELSE IF ln.kw = "MOVEABS" THEN moveabs_branch(s, ln)
    ELSE IF ln.kw = "VEL" THEN vel_branch(s, ln)
    ELSE IF ln.kw \in {"CWABS", "CCWABS"} THEN arc_branch(s, ln)
    ELSE s

\* the except clause: the exception is logged and the loop goes on
Except(r) ==
    IF r.raised
    THEN Log(Log([r EXCEPT !.raised = FALSE], "WarnError"), "ErrorDetail")
    ELSE r

\* the try/except around the chain
try_line(s, ln) == Except(dispatch(s, ln))

\* ---------------------------------------------------------------- actions
Preamble == <<OutLine(0, <<<<"G", 21>>>>, 0), OutLine(0, <<<<"G", 17>>>>, 0),
              OutLine(0, <<<<"G", 90>>>>, 0)>>

InitLocals ==
    /\ pc = "start"
    /\ input = <<>>
    /\ lines_processed = 0
    /\ out = <<>>
    /\ out_open = FALSE
    /\ line_no = 1
    /\ current_feed = None
    /\ last_pos = [X |-> 0, Y |-> 0, Z |-> 0]
    /\ start_done = FALSE
    /\ total_time_min = 0
    /\ log = <<>>
    /\ writes = 0
    /\ failed_writes = 0
    /\ progress = <<>>
    /\ result = None
    /\ error = ""
    /\ swept = <<>>
    /\ converting = FALSE
    /\ input_var = ""
    /\ convert_btn = "normal"
    /\ browse_btn = "normal"
    /\ worker = [w \in 1..MaxRuns |-> "unborn"]
    /\ outcome = [w \in 1..MaxRuns |-> ""]
    /\ reports = 0
    /\ after = <<>>
    /\ event = ""

InitEnv ==
    /\ use_arc_commands \in BOOLEAN
    /\ input_exists \in BOOLEAN
    /\ output_writable \in BOOLEAN
    /\ file_len \in 0..MaxLines
    /\ total_lines \in 0..file_len

\* every write succeeds
Init == InitLocals /\ InitEnv /\ fail_at = 0

\* the environment may fail one write call
InitIO == InitLocals /\ InitEnv /\ fail_at \in 0..MaxFailAt

\* the locals of r become the state
Commit(r) ==
    /\ out' = r.out
    /\ line_no' = r.line_no
    /\ current_feed' = r.current_feed
    /\ last_pos' = r.last_pos
    /\ start_done' = r.start_done
    /\ total_time_min' = r.total_time_min
    /\ log' = r.log
    /\ writes' = r.writes
    /\ failed_writes' = r.failed_writes

locals == <<out, line_no, current_feed, last_pos, start_done, total_time_min,
            log, writes, failed_writes>>

\* the first pass without the check for zero processable lines
FirstPass_unchecked ==
    /\ pc = "start"
    /\ IF ~input_exists
       THEN pc' = "failed" /\ error' = "FileNotFoundError" /\ progress' = progress
       ELSE pc' = "counted" /\ error' = error /\ progress' = Append(progress, 0)
    /\ UNCHANGED <<env, beside, input, lines_processed, locals, out_open, result>>

\* the first pass: count the processable lines, fail on none, report 0
FirstPass ==
    /\ pc = "start"
    /\ IF ~input_exists
       THEN pc' = "failed" /\ error' = "FileNotFoundError" /\ progress' = progress
       ELSE IF total_lines = 0
       THEN pc' = "failed" /\ error' = "NoProcessableCommands" /\ progress' = progress
       ELSE pc' = "counted" /\ error' = error /\ progress' = Append(progress, 0)
    /\ UNCHANGED <<env, beside, input, lines_processed, locals, out_open, result>>

Opened(r) ==
    /\ Commit(r)
    /\ out_open' = ~r.raised
    /\ pc' = IF r.raised THEN "failed" ELSE "loop"
    /\ error' = IF r.raised THEN "WriteError" ELSE error

\* open the output and write the preamble; a failed write propagates
\* through the finally clause, which closes the file
OpenOutput ==
    /\ pc = "counted"
    /\ IF ~output_writable
       THEN /\ pc' = "failed"
            /\ error' = "CannotOpenOutput"
            /\ UNCHANGED <<locals, out_open>>
       ELSE Opened(EmitAll(Machine(0), Preamble))
    /\ UNCHANGED <<env, beside, input, lines_processed, progress, result>>

\* a blank or a comment line: read and passed over
SkipLine ==
    /\ pc = "loop"
    /\ file_len - Len(input) > total_lines - lines_processed
    /\ \E ln \in SkippedLines : input' = Append(input, ln)
    /\ UNCHANGED <<pc, env, beside, lines_processed, locals, out_open, progress, result, error>>

\* the share of the lines processed, out of 100
Percent_full(n) == (n * 100 * 100) \div total_lines

\* lines_processed / total_lines * 95, in 1/100 percent
Percent(n) == (n * 100 * PROGRESS_SPAN) \div total_lines

\* the body of the loop for one processable line
LoopBody(ln) ==
    /\ pc = "loop"
    /\ lines_processed < total_lines
    /\ input' = Append(input, ln)
    /\ lines_processed' = lines_processed + 1
    /\ progress' = IF \/ (lines_processed + 1) % PROGRESS_EVERY = 0
                      \/ lines_processed + 1 = total_lines
                   THEN Append(progress, Percent(lines_processed + 1))
                   ELSE progress
    /\ Commit(try_line(Machine(Len(input) + 1), ln))
    /\ UNCHANGED <<pc, env, beside, out_open, result, error>>

SpindleLine ==
    \E ln \in SpindleLines :
        /\ ln.kw = "SPINDLE CW"
        /\ LoopBody(ln)

FastabsLine ==
    \E ln \in FastabsLines :
        /\ ln.kw = "FASTABS"
        /\ LoopBody(ln)

MoveabsLine ==
    \E ln \in MoveabsLines :
        /\ ln.kw = "MOVEABS"
        /\ LoopBody(ln)

VelLine ==
    \E ln \in VelLines :
        /\ ln.kw = "VEL"
        /\ LoopBody(ln)

ArcMove ==
    \E ln \in ArcLines :
        /\ ln.kw \in {"CWABS", "CCWABS"}
        /\ LoopBody(ln)

OtherLine ==
    \E ln \in OtherLines :
        /\ ln.kw = "OTHER"
        /\ LoopBody(ln)

\* the run ends without the return statement
Finished_unreturned(r) ==
    /\ Commit(r)
    /\ out_open' = FALSE
    /\ pc' = IF r.raised THEN "failed" ELSE "done"
    /\ error' = IF r.raised THEN "WriteError" ELSE error
    /\ progress' = IF r.raised THEN progress ELSE Append(progress, 100 * 100)
    /\ result' = result

Finished(r) ==
    /\ Commit(r)
    /\ out_open' = FALSE
    /\ pc' = IF r.raised THEN "failed" ELSE "done"
    /\ error' = IF r.raised THEN "WriteError" ELSE error
    /\ progress' = IF r.raised THEN progress ELSE Append(progress, 100 * 100)
    /\ result' = IF r.raised THEN result ELSE r.total_time_min

\* end of input: the postamble, the close, the last progress report, the return
Finish ==
    /\ pc = "loop"
    /\ Len(input) = file_len
    /\ Finished(ThenEmit(emit_n(Machine(0), <<<<"M", 5>>>>), <<<<"M", 30>>>>))
    /\ UNCHANGED <<env, beside, input, lines_processed>>

Next ==
    \/ FirstPass
    \/ OpenOutput
    \/ SkipLine
    \/ SpindleLine
    \/ FastabsLine
    \/ MoveabsLine
    \/ VelLine
    \/ ArcMove
    \/ OtherLine
    \/ Finish

\* convert_file runs on one thread and takes its next step whenever it has
\* one
InitLive ==
    /\ InitLocals
    /\ use_arc_commands \in BOOLEAN
    /\ input_exists \in BOOLEAN
    /\ output_writable \in BOOLEAN
    /\ file_len \in 0..MaxLiveLines
    /\ total_lines \in 0..file_len
    /\ fail_at = 0

SpecLive == InitLive /\ [][Next]_vars /\ WF_vars(Next)

\* A long file: every line the same processable command, every write
\* succeeds.
LongLines == {Line("SPINDLE CW", 1000, NoTok)}

InitLong ==
    /\ InitLocals
    /\ use_arc_commands = FALSE
    /\ input_exists = TRUE
    /\ output_writable = TRUE
    /\ file_len \in 1..MaxLongLines
    /\ total_lines = file_len
    /\ fail_at = 0

LongLine ==
    \E ln \in LongLines :
        /\ ln.kw = "SPINDLE CW"
        /\ LoopBody(ln)

NextLong ==
    \/ FirstPass
    \/ OpenOutput
    \/ LongLine
    \/ Finish

SpecLong == InitLong /\ [][NextLong]_vars

Spec == Init /\ [][Next]_vars

SpecIO == InitIO /\ [][Next]_vars


\* ------------------------------------------------- the sweep of one arc
\* The angles of an arc as CPython computes them, the sign of a zero
\* included: a float is a record [v, neg], v its value in um and neg its
\* sign bit.  float("-0") / SCALE is -0.0, and math.atan2(-0.0, x) is -pi
\* for x < 0 where math.atan2(0.0, x) is pi.
Float(v) == [v |-> v, neg |-> v < 0]

NEG_ZERO == [v |-> 0, neg |-> TRUE]

\* a + b: a zero sum is -0.0 only when both terms are -0.0
FAdd(a, b) ==
    [v |-> a.v + b.v,
     neg |-> IF a.v + b.v # 0 THEN a.v + b.v < 0 ELSE (a.v = 0 /\ a.neg /\ b.neg)]

\* a - b: a zero difference is -0.0 only for -0.0 - 0.0
FSub(a, b) ==
    [v |-> a.v - b.v,
     neg |-> IF a.v - b.v # 0 THEN a.v - b.v < 0 ELSE (a.v = 0 /\ a.neg /\ ~b.neg)]

\* math.atan2(y, x) on signed floats, the sign of a zero angle dropped
atan2(y, x) ==
    IF y.v = 0 /\ (x.v < 0 \/ (x.v = 0 /\ x.neg))
    THEN (IF y.neg THEN -PI ELSE PI)
    ELSE Atan2(y.v, x.v)

\* the values of the tokens: 0, -0, 50, -50
SweepValues == {Float(0), NEG_ZERO, Float(50), Float(-50)}

\* the tokens parse_coord finds on a line, over the letters `axes`
SweepToks(axes) == UNION {[D -> SweepValues] : D \in SUBSET axes}

\* ij.get(k, 0.0) and the like
FGet(d, k) == IF k \in DOMAIN d THEN d[k] ELSE Float(0)

\* target = last_pos.copy(); target.update(c), on X and Y
FUpdate(pos, c) == [k \in DOMAIN pos |-> IF k \in DOMAIN c THEN c[k] ELSE pos[k]]

Origin == [X |-> Float(0), Y |-> Float(0)]

\* a0 and the adjusted a1 of the arc from start to end about (cx, cy)
Sweep(start, end, cx, cy, cw) ==
    [start |-> start, end |-> end, cw |-> cw,
     r  |-> Hypot(start["X"].v - cx.v, start["Y"].v - cy.v),
     a0 |-> atan2(FSub(start["Y"], cy), FSub(start["X"], cx)),
     a1 |-> SweepEnd(atan2(FSub(start["Y"], cy), FSub(start["X"], cx)),
                     atan2(FSub(end["Y"], cy), FSub(end["X"], cx)),
                     cw)]

\* the arc branch on the tokens tok, from the position start
ArcSweep(start, tok, cw) ==
    Sweep(start, FUpdate(start, tok),
          FAdd(start["X"], FGet(tok, "I")), FAdd(start["Y"], FGet(tok, "J")), cw)

\* A file of at most two lines: a MOVEABS or FASTABS with the tokens c (none:
\* no such line), then a CWABS or CCWABS with the tokens tok; the angles of
\* the arc are kept in swept.
SweepArc ==
    /\ swept = <<>>
    /\ \E c \in SweepToks({"X", "Y"}), tok \in SweepToks({"X", "Y", "I", "J"}),
          cw \in BOOLEAN :
          swept' = <<ArcSweep(FUpdate(Origin, c), tok, cw)>>
    /\ UNCHANGED <<pc, env, input, lines_processed, locals, out_open, progress,
                   result, error, converting, input_var, convert_btn, browse_btn,
                   worker, outcome, reports, after, event>>

InitSweep ==
    /\ InitLocals
    /\ use_arc_commands \in BOOLEAN
    /\ input_exists = TRUE
    /\ output_writable = TRUE
    /\ file_len = 2
    /\ total_lines = 2
    /\ fail_at = 0

NextSweep == SweepArc

SpecSweep == InitSweep /\ [][NextSweep]_vars

\* ------------------------------------------------------------------ the GUI
\* run_gui: the handlers of the UI thread run one at a time; a worker thread
\* runs _do_convert and interleaves with them.  A callback scheduled with
\* root.after(0, ...) runs later on the UI thread, in the order scheduled.
\* convert_file is taken here by how it ends.  The log box, the progress bar
\* and the dialogs are left out: no handler reads them.
Outcomes == {"returned", "FileNotFoundError", "UnicodeDecodeError", "Exception"}

\* what the steps of the GUI leave alone
engine == <<pc, env, swept, input, lines_processed, locals, out_open, progress,
            result, error>>

\* drop(event): ignored while converting; a path that is a file is taken
drop ==
    /\ event' = "drop"
    /\ IF converting
       THEN input_var' = input_var
       ELSE \E isfile \in BOOLEAN :
               input_var' = IF isfile THEN "file" ELSE input_var
    /\ UNCHANGED <<engine, converting, convert_btn, browse_btn, worker, outcome,
                   reports, after>>

\* browse_input(): ignored while converting; a chosen path is taken
browse_input ==
    /\ event' = "browse_input"
    /\ IF converting
       THEN input_var' = input_var
       ELSE \E chosen \in BOOLEAN :
               input_var' = IF chosen THEN "file" ELSE input_var
    /\ UNCHANGED <<engine, converting, convert_btn, browse_btn, worker, outcome,
                   reports, after>>

\* the entry is a text field: the user may type or clear a path at any time
Typed ==
    /\ event' = "entry"
    /\ \E text \in {"", "typed"} : input_var' = text
    /\ UNCHANGED <<engine, converting, convert_btn, browse_btn, worker, outcome,
                   reports, after>>

\* the worker threads not yet started
Unborn == {w \in 1..MaxRuns : worker[w] = "unborn"}

\* threading.Thread(target=_do_convert, ...).start(), after the flag is set
\* and the buttons are disabled
Started(w) ==
    /\ converting' = TRUE
    /\ convert_btn' = "disabled"
    /\ browse_btn' = "disabled"
    /\ worker' = [worker EXCEPT ![w] = "convert_file"]
    /\ reports' = 0

\* convert() returns early
Returned == UNCHANGED <<converting, convert_btn, browse_btn, worker, reports>>

\* convert() never looks at the flag
convert_unguarded ==
    /\ event' = "convert"
    /\ Unborn # {}
    /\ \E isfile \in BOOLEAN, saved \in BOOLEAN :
          IF input_var = "" \/ ~isfile \/ ~saved
          THEN Returned
          ELSE Started(CHOOSE w \in Unborn : \A v \in Unborn : w <= v)
    /\ UNCHANGED <<engine, input_var, outcome, after>>

\* convert(): ignored while converting, refused without a path that is a
\* file, abandoned when the save dialog is cancelled; else a worker starts
convert ==
    /\ event' = "convert"
    /\ Unborn # {}
    /\ \E isfile \in BOOLEAN, saved \in BOOLEAN :
          IF converting \/ input_var = "" \/ ~isfile \/ ~saved
          THEN Returned
          ELSE Started(CHOOSE w \in Unborn : \A v \in Unborn : w <= v)
    /\ UNCHANGED <<engine, input_var, outcome, after>>

\* safe_progress, called by convert_file in worker w
Report(w) ==
    /\ worker[w] = "convert_file"
    /\ reports < MaxReports
    /\ reports' = reports + 1
    /\ after' = Append(after, "update_progress")
    /\ event' = "worker"
    /\ UNCHANGED <<engine, converting, input_var, convert_btn, browse_btn, worker,
                   outcome>>

\* the callbacks the try statement of _do_convert schedules
Scheduled(how) ==
    IF how = "returned" THEN <<"on_done">> ELSE <<"log", "label", "showerror">>

\* convert_file returns or raises in worker w and the try statement
\* schedules its callbacks; the finally clause is still to run
Ended(w) ==
    /\ worker[w] = "convert_file"
    /\ \E how \in Outcomes :
          /\ outcome' = [outcome EXCEPT ![w] = how]
          /\ after' = after \o Scheduled(how)
    /\ worker' = [worker EXCEPT ![w] = "finally"]
    /\ event' = "worker"
    /\ UNCHANGED <<engine, converting, input_var, convert_btn, browse_btn, reports>>

\* the finally clause: root.after(0, re_enable)
Finally(w) ==
    /\ worker[w] = "finally"
    /\ after' = Append(after, "re_enable")
    /\ worker' = [worker EXCEPT ![w] = "returning"]
    /\ event' = "worker"
    /\ UNCHANGED <<engine, converting, input_var, convert_btn, browse_btn, outcome,
                   reports>>

\* _do_convert returns and the thread ends
Exited(w) ==
    /\ worker[w] = "returning"
    /\ worker' = [worker EXCEPT ![w] = "exited"]
    /\ event' = "worker"
    /\ UNCHANGED <<engine, converting, input_var, convert_btn, browse_btn, outcome,
                   reports, after>>

WorkerStep == \E w \in 1..MaxRuns : Report(w) \/ Ended(w) \/ Finally(w) \/ Exited(w)

\* re_enable(): the flag is cleared and the buttons are normal again
re_enable ==
    /\ converting' = FALSE
    /\ convert_btn' = "normal"
    /\ browse_btn' = "normal"

\* the UI thread runs the callback scheduled first
Callback ==
    /\ after # <<>>
    /\ after' = Tail(after)
    /\ event' = Head(after)
    /\ IF Head(after) = "re_enable"
       THEN re_enable
       ELSE UNCHANGED <<converting, convert_btn, browse_btn>>
    /\ UNCHANGED <<engine, input_var, worker, outcome, reports>>

InitGUI ==
    /\ InitLocals
    /\ use_arc_commands = FALSE
    /\ input_exists = TRUE
    /\ output_writable = TRUE
    /\ file_len = 0
    /\ total_lines = 0
    /\ fail_at = 0

NextGUI ==
    \/ drop
    \/ browse_input
    \/ Typed
    \/ convert
    \/ WorkerStep
    \/ Callback

\* a started thread runs on, and the main loop runs the callbacks scheduled
SpecGUI == InitGUI /\ [][NextGUI]_vars /\ WF_vars(WorkerStep) /\ WF_vars(Callback)

\* ------------------------------------------------- vocabulary of the claims
Last(q) == q[Len(q)]

\* the code word of an output line, e.g. <<"G", 1>>
Code(l) == l.words[1]

\* the letters of an output line, in order
Letters(l) == [i \in 1..Len(l.words) |-> l.words[i][1]]

\* the value of the word with letter k in an output line that has one
Word(l, k) == (CHOOSE w \in SeqToSet(l.words) : w[1] = k)[2]

IsMotion(l) == Code(l) \in {<<"G", 1>>, <<"G", 2>>, <<"G", 3>>}

IsFeedWord(l) == Code(l)[1] = "F"

\* the output lines built while input line i was processed
FromLine(i) == SelectSeq(out, LAMBDA l : l.src = i)

\* this step reads one more input line; ThisLine is that line
ReadsLine == Len(input') = Len(input) + 1

ThisLine == input'[Len(input')]

\* the output lines and the log messages this step adds
Emitted == SubSeq(out', Len(out) + 1, Len(out'))

Logged == SubSeq(log', Len(log) + 1, Len(log'))

\* the input lines read so far with one of the keywords kws
Seen(kws) == {i \in 1..Len(input) : input[i].kw \in kws}

Count(q, Test(_)) == Len(SelectSeq(q, Test))

ArcKeywords == {"CWABS", "CCWABS"}

\* ------------------------------------------------------------------ claims

\* C1: the output starts with the three unnumbered preamble lines G21, G17,
\* G90; every later line carries the identifier of its place (N1, N2, ...:
\* starting at 1, no gap, no repeat); a finished run ends with M05 and M30,
\* which take the next two identifiers.
C1_Numbering ==
    /\ \A i \in 1..Len(out) :
          IF i <= 3
          THEN out[i].n = 0 /\ out[i].words = <<<<"G", <<21, 17, 90>>[i]>>>>
          ELSE out[i].n = i - 3
    /\ pc = "done" =>
          /\ Len(out) >= 5
          /\ out[Len(out) - 1].words = <<<<"M", 5>>>>
          /\ out[Len(out)].words = <<<<"M", 30>>>>

\* a finished run whose output mixes a retraction, rapid, default-feed,
\* linearised arc and spindle lines
C1_Witness ==
    /\ pc = "done"
    /\ Len(out) >= 10
    /\ \A c \in {<<"G", 0>>, <<"F", 1000>>, <<"G", 1>>, <<"S", 1000>>} :
          \E i \in 1..Len(out) : Code(out[i]) = c
    /\ \E i \in Seen({"FASTABS"}) : Len(FromLine(i)) = 2


\* the G0 lines a step emits beyond the command's own line: the startup
\* retractions (no branch but the FASTABS one writes a G0 line of its own)
RetractionsEmitted ==
    Count(Emitted, LAMBDA l : Code(l) = <<"G", 0>>)
        - (IF ThisLine.kw = "FASTABS" THEN 1 ELSE 0)

\* C2: the startup retraction line G0 Z4.000 is emitted at most once per
\* run; a step emits it only while it processes the first FASTABS of the
\* run, only when the tracked Z is then below SAFE_Z, and as the line right
\* before that command's own G0 line; no MOVEABS, arc, VEL or SPINDLE line
\* and no later FASTABS emits it.
C2_Retraction ==
    /\ [](Cardinality({i \in Seen({"FASTABS"}) : Len(FromLine(i)) > 1}) <= 1)
    /\ [][ReadsLine =>
            /\ RetractionsEmitted \in {0, 1}
            /\ RetractionsEmitted = 1 =>
                  /\ ThisLine.kw = "FASTABS"
                  /\ Seen({"FASTABS"}) = {}
                  /\ last_pos["Z"] < SAFE_Z
                  /\ Len(Emitted) = 2
                  /\ Emitted[1].words = <<<<"G", 0>>, <<"Z", SAFE_Z>>>>
                  /\ Code(Emitted[2]) = <<"G", 0>>
                  /\ Emitted[2].n = Emitted[1].n + 1]_vars

\* the first FASTABS retracted and lowered Z again, and a second FASTABS
\* was processed below the safe height without a retraction
C2_Witness ==
    /\ Cardinality(Seen({"FASTABS"})) = 2
    /\ Len(input) = 2
    /\ Len(FromLine(1)) = 2
    /\ FromLine(1)[1].words = <<<<"G", 0>>, <<"Z", SAFE_Z>>>>
    /\ input[1].tok = "Z" :> 0
    /\ Len(FromLine(2)) = 1
    /\ last_pos["Z"] = 0

\* C3: no G1, G2 or G3 line is emitted while the feed rate is undefined:
\* each such line has an F line before it in the output; the first MOVEABS
\* or arc command processed before any VEL value was parsed emits F1000 as
\* the line right before its motion line and logs one warning; the
\* defaulting happens at most once per run.
C3_DefaultFeed ==
    /\ current_feed = None => \A i \in 1..Len(out) : ~IsMotion(out[i])
    /\ \A i \in 1..Len(out) :
          IsMotion(out[i]) => \E j \in 1..(i - 1) : IsFeedWord(out[j])
    /\ \A i \in Seen({"MOVEABS"} \cup ArcKeywords) :
          (\A j \in 1..(i - 1) :
              /\ input[j].kw \notin {"MOVEABS"} \cup ArcKeywords
              /\ ~(input[j].kw = "VEL" /\ input[j].num # None))
          => /\ Len(FromLine(i)) >= 2
             /\ FromLine(i)[1].words = <<<<"F", DEFAULT_FEED>>>>
             /\ IsMotion(FromLine(i)[2])
             /\ FromLine(i)[2].n = FromLine(i)[1].n + 1
             /\ Count(log, LAMBDA m : m.src = i /\ m.msg = "WarnDefaultFeed") = 1
    /\ Count(log, LAMBDA m : m.msg = "WarnDefaultFeed") <= 1
    /\ Count(out, LAMBDA l : l.words = <<<<"F", DEFAULT_FEED>>>>) <= 1

\* a MOVEABS defaulted the feed, and an arc after it did not default again
C3_Witness ==
    /\ Len(input) = 3
    /\ input[1].kw = "VEL" /\ input[1].num = None
    /\ input[2].kw = "MOVEABS"
    /\ input[3].kw \in ArcKeywords
    /\ Len(FromLine(2)) = 2
    /\ \A l \in SeqToSet(FromLine(3)) : IsMotion(l)
    /\ current_feed = DEFAULT_FEED * FEED_ONE


MoveKeywords == {"FASTABS", "MOVEABS"}

\* the axes a line has no token for
Unnamed(ln) == SeqToSet(Axes) \ DOMAIN ln.tok

\* C4, as claimed: a FASTABS or MOVEABS command changes the tracked position
\* only on the axes it names, the first FASTABS of a run below the safe
\* height included.
C4_FrameAsClaimed ==
    [][ReadsLine /\ ThisLine.kw \in MoveKeywords =>
          \A k \in Unnamed(ThisLine) : last_pos'[k] = last_pos[k]]_vars

\* C4, amended: a FASTABS or MOVEABS command changes the tracked position
\* only on the axes it names, except that a FASTABS which emits the startup
\* retraction line (G0 Z4.000, the tracked Z being below SAFE_Z) also sets
\* an unnamed Z to SAFE_Z.
C4_Frame ==
    [][ReadsLine /\ ThisLine.kw \in MoveKeywords =>
          \A k \in Unnamed(ThisLine) :
              \/ last_pos'[k] = last_pos[k]
              \/ /\ k = "Z"
                 /\ ThisLine.kw = "FASTABS"
                 /\ last_pos["Z"] < SAFE_Z
                 /\ Len(Emitted) >= 1
                 /\ Emitted[1].words = <<<<"G", 0>>, <<"Z", SAFE_Z>>>>
                 /\ last_pos'["Z"] = SAFE_Z]_vars

\* a first FASTABS X.. Y.. below the safe height, then a MOVEABS naming only
\* Z, which kept the X and Y of the rapid move
C4_Witness ==
    /\ Len(input) = 2
    /\ input[1].kw = "FASTABS" /\ DOMAIN input[1].tok = {"X", "Y"}
    /\ input[2].kw = "MOVEABS" /\ input[2].tok = "Z" :> 0
    /\ last_pos = [X |-> 100, Y |-> 50, Z |-> 0]

\* C5: the accumulated time is never negative and never decreases from one
\* step to the next; a finished run whose input holds no VEL, MOVEABS,
\* CWABS or CCWABS line returns exactly zero.
C5_Time ==
    /\ [](/\ total_time_min >= 0
          /\ (pc = "done" /\ Seen({"VEL", "MOVEABS"} \cup ArcKeywords) = {})
                => result = 0)
    /\ [][total_time_min' >= total_time_min]_vars

\* a finished run in which a feed move and a clockwise arc both added time
C5_Witness ==
    /\ pc = "done"
    /\ Len(input) = 3
    /\ input[1].kw = "VEL" /\ input[1].num = 1000
    /\ input[2].kw = "MOVEABS"
    /\ input[3].kw = "CWABS"
    /\ result > 1000

\* C6: a VEL line with no number and a SPINDLE CW line with no RPM token do
\* not abort the run: one warning is logged for the line, nothing is
\* emitted, no identifier is consumed, feed, position, retraction flag and
\* time are unchanged, and the loop goes on.
C6_MissingNumber ==
    [][ReadsLine /\ ThisLine.kw \in {"VEL", "SPINDLE CW"} /\ ThisLine.num = None =>
          /\ Len(Logged) = 1
          /\ Logged[1].msg = (IF ThisLine.kw = "VEL" THEN "WarnVEL" ELSE "WarnRPM")
          /\ Logged[1].src = Len(input')
          /\ out' = out
          /\ line_no' = line_no
          /\ current_feed' = current_feed
          /\ last_pos' = last_pos
          /\ start_done' = start_done
          /\ total_time_min' = total_time_min
          /\ pc' = "loop"
          /\ error' = ""]_vars

\* a feed was set, then a SPINDLE CW without RPM and a VEL without a number
\* were passed over, and the feed is still the one set
C6_Witness ==
    /\ Len(input) = 3
    /\ input[1] = Line("VEL", 1000, NoTok)
    /\ input[2] = Line("SPINDLE CW", None, NoTok)
    /\ input[3] = Line("VEL", None, NoTok)
    /\ current_feed = FeedFromVel(1000)
    /\ [i \in 1..Len(log) |-> log[i].msg] = <<"Feed", "WarnRPM", "WarnVEL">>
    /\ Len(out) = 4

\* C7: a line that starts with none of the recognized keywords is skipped
\* with a warning: nothing is emitted, the machine state is unchanged, the
\* run goes on, and at least one warning is logged for the line.
C7_UnrecognizedWarned ==
    [][ReadsLine /\ ThisLine.kw = "OTHER" =>
          /\ out' = out
          /\ line_no' = line_no
          /\ current_feed' = current_feed
          /\ last_pos' = last_pos
          /\ start_done' = start_done
          /\ pc' = "loop"
          /\ Len(Logged) >= 1]_vars

\* C8: a write call that fails is fatal: the run is aborted and the failure
\* reaches the caller, whichever line was being written.
C8_WriteFailureFatal ==
    failed_writes > 0 => pc = "failed" /\ error = "WriteError"

\* the end point an arc command programs: its tokens over the start point
ProgrammedEnd(k) ==
    IF k \in DOMAIN ThisLine.tok THEN ThisLine.tok[k] ELSE last_pos[k]

\* the centre an arc command programs: the start point moved by I and J
ProgrammedCenter(k) ==
    last_pos[k] + (IF k = "X" THEN Get(ThisLine.tok, "I") ELSE Get(ThisLine.tok, "J"))

\* the radius and the angles of the arc the command programs
ProgrammedSweep ==
    ArcGeometry(last_pos,
                [k \in SeqToSet(Axes) |-> ProgrammedEnd(k)],
                [k \in {"X", "Y"} |-> ProgrammedCenter(k)],
                ThisLine.kw = "CWABS")

ArcStep == ReadsLine /\ ThisLine.kw \in ArcKeywords /\ use_arc_commands

\* the arc line l names the direction of the command
Directed(l) == Code(l) = <<"G", IF ThisLine.kw = "CWABS" THEN 2 ELSE 3>>

\* l carries the programmed end point and the signed radius
RadiusForm(l) ==
    /\ Directed(l)
    /\ Letters(l) = <<"G", "X", "Y", "R">>
    /\ Word(l, "X") = ProgrammedEnd("X")
    /\ Word(l, "Y") = ProgrammedEnd("Y")
    /\ Abs(Word(l, "R")) = RoundDiv(ProgrammedSweep.r, 100)
    /\ Word(l, "R") > 0 <=> Abs(ProgrammedSweep.a1 - ProgrammedSweep.a0) <= PI

\* the point (x, y) is on the circle through the start point about the
\* programmed centre, to within 1 um
OnStartCircle(x, y) ==
    Abs(Hypot(x - ProgrammedCenter("X"), y - ProgrammedCenter("Y"))
        - Hypot(last_pos["X"] - ProgrammedCenter("X"),
                last_pos["Y"] - ProgrammedCenter("Y"))) <= 100

\* the point (x, y) is on the ray from the programmed centre through the
\* programmed end point, to within 1 um across the ray
OnEndRay(x, y) ==
    /\ 100 * Abs((ProgrammedEnd("X") - ProgrammedCenter("X")) * (y - ProgrammedCenter("Y"))
                 - (ProgrammedEnd("Y") - ProgrammedCenter("Y")) * (x - ProgrammedCenter("X")))
          <= Hypot(ProgrammedEnd("X") - ProgrammedCenter("X"),
                   ProgrammedEnd("Y") - ProgrammedCenter("Y"))
    /\ (ProgrammedEnd("X") - ProgrammedCenter("X")) * (x - ProgrammedCenter("X"))
         + (ProgrammedEnd("Y") - ProgrammedCenter("Y")) * (y - ProgrammedCenter("Y")) >= 0

\* l carries the projected end point and the I/J offsets of the centre
CenterForm(l) ==
    /\ Directed(l)
    /\ Letters(l) = <<"G", "X", "Y", "I", "J">>
    /\ Word(l, "I") = Get(ThisLine.tok, "I")
    /\ Word(l, "J") = Get(ThisLine.tok, "J")
    /\ OnStartCircle(Word(l, "X"), Word(l, "Y"))
    /\ OnEndRay(Word(l, "X"), Word(l, "Y"))

\* C9, as claimed: under strategy B the directive emitted for an arc
\* command carries the direction, the end coordinates as parsed and a signed
\* radius R (positive when the sweep is at most 180 degrees) and no I/J
\* pair.
C9_RadiusFormAsClaimed ==
    [][ArcStep =>
          \A j \in 1..Len(Emitted) : IsMotion(Emitted[j]) => RadiusForm(Emitted[j])]_vars

\* C9, amended: under strategy B the directive emitted for an arc command
\* carries the direction (G2 for CWABS, G3 for CCWABS), the end point
\* projected onto the circle through the start point about the centre (on
\* the ray from the centre through the programmed end point), and the
\* centre as the I/J offsets from the start point; it has no R and no Z
\* word.  Lengths are compared to within 1 um.
C9_CenterForm ==
    [][ArcStep =>
          \A j \in 1..Len(Emitted) : IsMotion(Emitted[j]) => CenterForm(Emitted[j])]_vars

\* an arc under strategy B whose programmed end point (100, 50) is off the
\* circle of radius 50 about (50, 0): the line carries the projected end
\* point (85, 35) and the I/J pair
C9_Witness ==
    /\ use_arc_commands
    /\ Len(input) = 1
    /\ input[1].kw = "CCWABS"
    /\ input[1].tok = ("X" :> 100) @@ ("Y" :> 50) @@ ("I" :> 50)
    /\ Len(out) = 5
    /\ Last(out).words
          = <<<<"G", 3>>, <<"X", 85>>, <<"Y", 35>>, <<"I", 50>>, <<"J", 0>>>>

\* C10: under strategy B every processed CWABS or CCWABS command emits
\* exactly one arc line (a G2 or a G3) and no G1 line, whatever its start
\* point, end point, centre offset and direction.
C10_OneDirective ==
    use_arc_commands =>
        \A i \in Seen(ArcKeywords) :
            /\ Count(FromLine(i), LAMBDA l : Code(l) \in {<<"G", 2>>, <<"G", 3>>}) = 1
            /\ Count(FromLine(i), LAMBDA l : Code(l) = <<"G", 1>>) = 0

\* strategy B processed an arc with a zero centre offset whose end point is
\* its start point, away from the origin, and a second arc after it
C10_Witness ==
    /\ use_arc_commands
    /\ Len(input) = 3
    /\ input[1].kw = "FASTABS"
    /\ input[2].kw \in ArcKeywords /\ input[2].tok = NoTok
    /\ input[3].kw \in ArcKeywords
    /\ last_pos["X"] # 0

LinearStep == ReadsLine /\ ThisLine.kw \in ArcKeywords /\ ~use_arc_commands

\* the G1 lines this step adds
Chorded == SelectSeq(Emitted, LAMBDA l : Code(l) = <<"G", 1>>)

\* the output line l ends within END_TOLERANCE of the programmed end point
\* in X and in Y
NearEnd(l) ==
    /\ Abs(Word(l, "X") - ProgrammedEnd("X")) <= END_TOLERANCE
    /\ Abs(Word(l, "Y") - ProgrammedEnd("Y")) <= END_TOLERANCE

\* the output line l ends on the programmed end point
OnEnd(l) ==
    /\ Word(l, "X") = ProgrammedEnd("X")
    /\ Word(l, "Y") = ProgrammedEnd("Y")

ProcessesLine == lines_processed' = lines_processed + 1

\* C12: every percentage handed to the progress callback lies in 0..100
\* and the percentages of a run never decrease; the callback is invoked when
\* every 50th processable line is processed and when the last one is; 100
\* is reported only as the last value, once M05 and M30 are written and the
\* output is closed.
C12_Progress ==
    /\ [](/\ \A i \in 1..Len(progress) : progress[i] \in 0..(100 * 100)
          /\ \A i \in 1..(Len(progress) - 1) : progress[i] <= progress[i + 1]
          /\ \A i \in 1..Len(progress) :
                progress[i] = 100 * 100 =>
                    /\ i = Len(progress)
                    /\ pc = "done"
                    /\ ~out_open
                    /\ Len(out) >= 2
                    /\ out[Len(out) - 1].words = <<<<"M", 5>>>>
                    /\ out[Len(out)].words = <<<<"M", 30>>>>)
    /\ [][(/\ ProcessesLine
           /\ \/ lines_processed' % 50 = 0
              \/ lines_processed' = total_lines)
            => /\ Len(progress') = Len(progress) + 1
               /\ Last(progress') = (lines_processed' * 95 * 100) \div total_lines]_vars

\* a finished run over 101 processable lines: reports at the start, at
\* lines 50 and 100, at the last line and at the end
C12_Witness ==
    /\ pc = "done"
    /\ total_lines = 101
    /\ progress = <<0, 4702, 9405, 9500, 100 * 100>>

\* the processable lines among the lines read so far
Processable == {i \in 1..Len(input) : input[i].kw \notin {"", ";"}}

\* C13: a run that opens the input and the output and has at least one
\* processable line terminates; the lines are consumed one at a time, in
\* file order, each once, whatever warnings the lines give rise to; at the
\* end every line has been consumed, the last two output lines are M05 and
\* M30, and the accumulated time is returned.
C13_Termination ==
    /\ (input_exists /\ output_writable /\ total_lines > 0) => <>(pc = "done")
    /\ [](pc = "done" =>
             /\ Len(input) = file_len
             /\ Cardinality(Processable) = total_lines
             /\ lines_processed = total_lines
             /\ ~out_open
             /\ Len(out) >= 2
             /\ out[Len(out) - 1].words = <<<<"M", 5>>>>
             /\ out[Len(out)].words = <<<<"M", 30>>>>
             /\ result # None
             /\ result = total_time_min)
    /\ [][/\ Len(input') \in {Len(input), Len(input) + 1}
          /\ SubSeq(input', 1, Len(input)) = input
          /\ Len(input') <= file_len]_vars

\* a finished run over a VEL without a number and a feed move: the warning
\* was logged, the move was timed, the time returned
C13_Witness ==
    /\ pc = "done"
    /\ Len(input) = 2
    /\ input[1] = Line("VEL", None, NoTok)
    /\ input[2].kw = "MOVEABS"
    /\ \E i \in 1..Len(log) : log[i].msg = "WarnVEL"
    /\ result > 0

\* C14: only MOVEABS, CWABS and CCWABS lines change the accumulated time:
\* a step that reads a FASTABS (its startup retraction included), a
\* SPINDLE CW, a VEL, an unrecognized, a blank or a comment line leaves it
\* as it was, so a later VEL does not alter the time of earlier moves.
C14_TimeFrame ==
    [][ReadsLine /\ ThisLine.kw \notin ({"MOVEABS"} \cup ArcKeywords) =>
          total_time_min' = total_time_min]_vars

\* a feed move of 0.1 mm at the default feed took 1e-4 min; the VEL and
\* the retracting FASTABS after it left that time as it was
C14_Witness ==
    /\ Len(input) = 3
    /\ input[1] = Line("MOVEABS", None, "X" :> 100)
    /\ input[2] = Line("VEL", 1000, NoTok)
    /\ input[3].kw = "FASTABS"
    /\ current_feed = FeedFromVel(1000)
    /\ last_pos["Z"] = SAFE_Z
    /\ total_time_min = 100

\* the position after the output line l is executed from the position pos:
\* a G0, G1, G2 or G3 line moves the axes it names
Executed(pos, l) ==
    IF Code(l)[1] = "G" /\ Code(l)[2] \in 0..3
    THEN [k \in DOMAIN pos |->
             IF k \in SeqToSet(Letters(l)) THEN Word(l, k) ELSE pos[k]]
    ELSE pos

\* the position the output lines command the machine to, from pos
RECURSIVE CommandedFrom(_, _)
CommandedFrom(pos, lines) ==
    IF lines = <<>> THEN pos
    ELSE CommandedFrom(Executed(pos, Head(lines)), Tail(lines))

\* C15: after every arc command, under either strategy, the tracked
\* position is the position the lines emitted for the command move the
\* machine to, on X, Y and Z, also when the command carries a Z token that
\* differs from the Z at its start.
C15_Authoritative ==
    [][ReadsLine /\ ThisLine.kw \in ArcKeywords =>
          last_pos' = CommandedFrom(last_pos, Emitted)]_vars

\* C16: the adjusted sweep a1 - a0 of every arc is strictly negative for a
\* clockwise arc and strictly positive for a counterclockwise one, of
\* magnitude at most one full turn; an arc whose end point is its start
\* point is a full turn, never a zero-length arc.
C16_SweepSign ==
    \A i \in 1..Len(swept) :
        /\ swept[i].cw =>
              (swept[i].a1 - swept[i].a0 < 0 /\ swept[i].a1 - swept[i].a0 >= -TWO_PI)
        /\ ~swept[i].cw =>
              (swept[i].a1 - swept[i].a0 > 0 /\ swept[i].a1 - swept[i].a0 <= TWO_PI)
        /\ (/\ swept[i].end["X"].v = swept[i].start["X"].v
            /\ swept[i].end["Y"].v = swept[i].start["Y"].v)
              => Abs(swept[i].a1 - swept[i].a0) = TWO_PI

\* C17: when the input file is missing or holds no processable line, the
\* run fails in the first pass: the output is never opened (so neither
\* created nor truncated), no line is written, the progress callback is
\* never invoked and nothing is returned.
C17_FailsBeforeOutput ==
    (~input_exists \/ total_lines = 0) =>
        /\ pc \in {"start", "failed"}
        /\ ~out_open
        /\ out = <<>>
        /\ writes = 0
        /\ progress = <<>>
        /\ input = <<>>
        /\ result = None
        /\ pc = "failed" =>
              error = (IF ~input_exists THEN "FileNotFoundError"
                       ELSE "NoProcessableCommands")

\* a run on an existing file of blank and comment lines only, with a
\* writable output path, has failed
C17_Witness ==
    /\ pc = "failed"
    /\ input_exists
    /\ output_writable
    /\ file_len = MaxLines
    /\ total_lines = 0
    /\ error = "NoProcessableCommands"

MotionStep == ReadsLine /\ ThisLine.kw \in ({"MOVEABS"} \cup ArcKeywords)

\* C18: a feed of zero causes no failure.  A VEL 0 sets the feed to 0 and
\* emits its F line; while the feed is 0 a MOVEABS or arc command emits only
\* its motion lines (no default F line, no warning, no error), updates the
\* tracked position (a MOVEABS to its tokens, an arc to the X and Y of its
\* last line) and leaves the accumulated time and the feed as they were.
C18_ZeroFeed ==
    /\ [][(ReadsLine /\ ThisLine.kw = "VEL" /\ ThisLine.num = 0) =>
             /\ current_feed' = 0
             /\ Len(Emitted) = 1
             /\ Emitted[1].words = <<<<"F", 0>>>>]_vars
    /\ [][(MotionStep /\ current_feed = 0) =>
             /\ Len(Emitted) >= 1
             /\ \A j \in 1..Len(Emitted) : IsMotion(Emitted[j])
             /\ Logged = <<>>
             /\ current_feed' = 0
             /\ total_time_min' = total_time_min
             /\ pc' = "loop"
             /\ ThisLine.kw = "MOVEABS" =>
                   \A k \in DOMAIN ThisLine.tok : last_pos'[k] = ThisLine.tok[k]
             /\ ThisLine.kw \in ArcKeywords =>
                   /\ last_pos'["X"] = Word(Last(Emitted), "X")
                   /\ last_pos'["Y"] = Word(Last(Emitted), "Y")]_vars

\* after VEL 0 a feed move and an arc were emitted and tracked, and the
\* time returned is zero
C18_Witness ==
    /\ pc = "done"
    /\ Len(input) = 3
    /\ input[1] = Line("VEL", 0, NoTok)
    /\ input[2] = Line("MOVEABS", None, ("X" :> 100) @@ ("Y" :> 50))
    /\ input[3].kw \in ArcKeywords
    /\ input[3].tok = "J" :> 50
    /\ Len(FromLine(3)) >= 1
    /\ last_pos["X"] = 100 /\ last_pos["Y"] = 50
    /\ current_feed = 0
    /\ result = 0

\* the workers running a conversion: started, re_enable not yet scheduled
Running == {w \in 1..MaxRuns : worker[w] \in {"convert_file", "finally"}}

\* C19: at most one worker runs a conversion at any time, and the flag is
\* set while one does; while the flag is set convert(), browse_input() and
\* drop() change nothing; after every run, however convert_file ended, the
\* flag is eventually cleared and both buttons are normal again, by a
\* callback on the UI thread and by nothing else.
C19_SingleWorker ==
    /\ [](/\ Cardinality(Running) <= 1
          /\ Running # {} => converting
          /\ converting <=> convert_btn = "disabled"
          /\ converting <=> browse_btn = "disabled")
    /\ [][(converting /\ event' \in {"convert", "browse_input", "drop"}) =>
             UNCHANGED <<converting, input_var, convert_btn, browse_btn, worker,
                         outcome, reports, after>>]_vars
    /\ [][(converting /\ ~converting') => event' = "re_enable"]_vars
    /\ converting ~> (~converting /\ convert_btn = "normal" /\ browse_btn = "normal")

\* the first conversion raised, the flag was cleared, and the second worker
\* is converting
C19_Witness ==
    /\ outcome[1] = "Exception"
    /\ worker[1] = "exited"
    /\ worker[2] = "convert_file"
    /\ converting
    /\ convert_btn = "disabled"
    /\ after = <<>>

====
